---- MODULE Spec2Model ----
(***************************************************************************)
(* A model of scripts/pull_transcripts.py: the playlist transcript puller. *)
(*                                                                         *)
(*   Spec      main(): one or more runs over a playlist, each video going  *)
(*             through fetch_best_english_transcript, join_text, the two   *)
(*             per-video writes, the summary row and the JSONL append.     *)
(*   SafeSpec  safe_filename(name, suffix, max_len) on bounded inputs.     *)
(*   FmtSpec   to_srt.fmt(t) on fixed-point times.                         *)
(*                                                                         *)
(* Strings the code inspects character by character (titles, suffixes,    *)
(* caption text, timestamps) are sequences of one-character tokens; a      *)
(* token such as "U+FF0F" stands for the single code point of that name.   *)
(***************************************************************************)
EXTENDS Integers, Sequences, FiniteSets, TLC

VARIABLES
    \* ---- main() ----
    pc,         \* position of main(): the statement about to run
    exitCode,   \* process exit status, -1 while running
    runs,       \* number of invocations of main() started so far
    items,      \* run_yt_dlp_list's result
    idx,        \* 1-based position of the for loop in items
    rows,       \* the summary-row accumulator
    sites,      \* history: for each row, the place of main() that produced it
    csv,        \* rows of transcripts.csv on disk
    jsonl,      \* lines of transcripts.jsonl on disk
    txtFiles,   \* transcripts/*.txt written by the current run
    srtFiles,   \* transcripts/*.srt written by the current run
    chunks,     \* fetch_best_english_transcript: returned chunks
    src,        \* fetch_best_english_transcript: returned label
    origin,     \* history: the track the returned chunks came from
    attempts,   \* history: strategies tried for the current video, in order
    trIdx,      \* position of `for tr in listing`
    \* ---- safe_filename ----
    sfName, sfSuffix, sfMaxLen, sfOut, sfDone,
    \* ---- to_srt.fmt ----
    fmtT, fmtOut, fmtDone

mainVars == <<pc, exitCode, runs, items, idx, rows, sites, csv, jsonl,
              txtFiles, srtFiles, chunks, src, origin, attempts, trIdx>>
sfVars   == <<sfName, sfSuffix, sfMaxLen, sfOut, sfDone>>
fmtVars  == <<fmtT, fmtOut, fmtDone>>
vars     == <<mainVars, sfVars, fmtVars>>

-----------------------------------------------------------------------------
(* Bounds of the model.                                                    *)

MaxTitleLen == 3     \* longest title given to safe_filename in SafeSpec
MaxLenArg   == 9     \* largest explicit max_len given to safe_filename
MaxItems    == 2     \* longest playlist returned by run_yt_dlp_list
MaxRuns     == 2     \* invocations of main() in one behaviour

-----------------------------------------------------------------------------
(* Generic sequence helpers.                                               *)

Max(a, b) == IF a >= b THEN a ELSE b

Prefix(s, n) == SubSeq(s, 1, IF n < Len(s) THEN n ELSE Len(s))

IsPrefix(s, t) == Len(s) <= Len(t) /\ SubSeq(t, 1, Len(s)) = s

EndsWith(s, suf) ==
    /\ Len(suf) <= Len(s)
    /\ SubSeq(s, Len(s) - Len(suf) + 1, Len(s)) = suf

\* The concatenation of a sequence of sequences.
Flatten(ss) ==
    LET upTo[i \in 0..Len(ss)] == IF i = 0 THEN <<>> ELSE upTo[i - 1] \o ss[i]
    IN  upTo[Len(ss)]

-----------------------------------------------------------------------------
(* safe_filename                                                           *)

\* The characters of the class [\\/:*?"<>|] of the first re.sub.
Forbidden == {"\\", "/", ":", "*", "?", "\"", "<", ">", "|"}

\* str.isprintable(): control characters are not printable, and of the
\* white space only the ASCII space is.
NonPrintable == {"U+0007", "U+0009", "U+000A", "U+00A0"}

\* The class \s of the second re.sub.
Whitespace == {" ", "U+0009", "U+000A", "U+00A0"}

\* unicodedata.normalize("NFKC", .) on one code point: compatibility
\* characters are replaced by their decomposition, which can be one of the
\* forbidden characters (FULLWIDTH SOLIDUS, FULLWIDTH COLON), a space
\* (NO-BREAK SPACE) or several characters (CARE OF, "c/o").
NFKCChar(c) ==
    CASE c = "U+FF0F" -> <<"/">>
      [] c = "U+FF1A" -> <<":">>
      [] c = "U+00A0" -> <<" ">>
      [] c = "U+2105" -> <<"c", "/", "o">>
      [] OTHER        -> <<c>>

NFKC(s) == Flatten([i \in 1..Len(s) |-> NFKCChar(s[i])])

\* "".join(ch for ch in n if ch.isprintable())
IsPrintable(c) == c \notin NonPrintable
DropNonPrintable(s) == SelectSeq(s, IsPrintable)

\* re.sub(r'[class]+', " ", s): every maximal run of characters of the class
\* becomes one space.
SubRuns(s, class) ==
    LET last == SelectSeq([i \in 1..Len(s) |-> i],
                          LAMBDA i : \/ s[i] \notin class
                                     \/ i = Len(s)
                                     \/ s[i + 1] \notin class)
    IN  [k \in 1..Len(last) |-> IF s[last[k]] \in class THEN " " ELSE s[last[k]]]

\* str.strip() and str.rstrip(): white space is removed at the ends.
LStrip(s) ==
    LET solid == {i \in 1..Len(s) : s[i] \notin Whitespace}
    IN  IF solid = {} THEN <<>>
        ELSE SubSeq(s, CHOOSE i \in solid : \A j \in solid : i <= j, Len(s))

RStrip(s) ==
    LET solid == {i \in 1..Len(s) : s[i] \notin Whitespace}
    IN  IF solid = {} THEN <<>>
        ELSE SubSeq(s, 1, CHOOSE i \in solid : \A j \in solid : i >= j)

Strip(s) == RStrip(LStrip(s))

\* A slip in line 26: one character too many is left to the title.
BaseMaxOffByOne(suffix, max_len) ==
    IF max_len - Len(suffix) + 1 < 1 THEN 1 ELSE max_len - Len(suffix) + 1

\* Lines 26-28: the room left for the title, clamped to 1.
BaseMax(suffix, max_len) ==
    IF max_len - Len(suffix) < 1 THEN 1 ELSE max_len - Len(suffix)

\* Lines 22-25: the cleaned title.
CleanTitle(name) ==
    Strip(SubRuns(SubRuns(DropNonPrintable(NFKC(name)), Forbidden), Whitespace))

safe_filename(name, suffix, max_len) ==
    LET n  == CleanTitle(name)
        bm == BaseMax(suffix, max_len)
    IN  (IF Len(n) > bm THEN RStrip(Prefix(n, bm)) ELSE n) \o suffix

\* The default of the max_len parameter (line 17).
DefaultMaxLen == 120

\* Line 137-138: f" [{vid}].txt" and f" [{vid}].srt"; a video id is one token.
Suffix(vid, ext) == <<" ", "[", vid, "]", ".">> \o ext
TxtExt == <<"t", "x", "t">>
SrtExt == <<"s", "r", "t">>

-----------------------------------------------------------------------------
(* to_srt.fmt                                                              *)
(*                                                                         *)
(* A time t is held in fixed point, as a whole number of ticks of 1/10 ms, *)
(* so that 59.9996 s is 599996 ticks.                                      *)

MsPerSecond == 1000
TicksPerMs  == 10
TicksPerSecond == MsPerSecond * TicksPerMs

\* round(x) of Python 3 on x = n / d: to the nearest integer, ties to even.
RoundHalfEven(n, d) ==
    LET q == n \div d
        r == n % d
    IN  IF 2 * r < d THEN q
        ELSE IF 2 * r > d THEN q + 1
        ELSE IF q % 2 = 0 THEN q ELSE q + 1

Digit(d) == CASE d = 0 -> "0" [] d = 1 -> "1" [] d = 2 -> "2" [] d = 3 -> "3"
              [] d = 4 -> "4" [] d = 5 -> "5" [] d = 6 -> "6" [] d = 7 -> "7"
              [] d = 8 -> "8" [] d = 9 -> "9"

RECURSIVE Digits(_)
Digits(n) == IF n < 10 THEN <<Digit(n)>> ELSE Digits(n \div 10) \o <<Digit(n % 10)>>

\* The format specification :0w of an f-string: at least w digits, padded
\* with zeros on the left, never truncated.
RECURSIVE ZeroPad(_, _)
ZeroPad(ds, w) == IF Len(ds) >= w THEN ds ELSE ZeroPad(<<"0">> \o ds, w)

Pad(n, w) == ZeroPad(Digits(n), w)

\* Lines 91-95.
fmt(t) ==
    LET h  == t \div (3600 * TicksPerSecond)
        m  == (t % (3600 * TicksPerSecond)) \div (60 * TicksPerSecond)
        s  == (t % (60 * TicksPerSecond)) \div TicksPerSecond
        ms == RoundHalfEven(t % TicksPerSecond, TicksPerMs)
    IN  Pad(h, 2) \o <<":">> \o Pad(m, 2) \o <<":">> \o Pad(s, 2)
            \o <<",">> \o Pad(ms, 3)

-----------------------------------------------------------------------------
(* The captions service and the playlist tool: what the run can meet.      *)

\* A caption chunk as the service returns it: a dict with text, start and
\* duration; times in ticks.
Chunk(text, start, duration) ==
    [text |-> text, start |-> start, duration |-> duration]

\* A transcript track of a listing.
Track(lang, generated, translatable, cs) ==
    [language_code |-> lang, is_generated |-> generated,
     is_translatable |-> translatable, chunks |-> cs]

\* The tracks list_transcripts(vid) iterates over, in listed order.
\*   A  one manually created English track
\*   B  only an auto-generated English track
\*   C  no English track: German and Spanish (translatable), French (not)
Listing(vid) ==
    CASE vid = "A" ->
           <<Track("en", FALSE, TRUE,
                   <<Chunk(<<"a", "U+000A", "b">>, 0, 599996),
                     Chunk(<<>>, 599996, 10000)>>)>>
      [] vid = "B" ->
           <<Track("en", TRUE, FALSE, <<Chunk(<<"a", " ">>, 37254567, 0)>>)>>
      [] vid = "C" ->
           <<Track("de", FALSE, TRUE,  <<Chunk(<<"d">>, 0, 10000)>>),
             Track("es", FALSE, TRUE,  <<Chunk(<<"e">>, 0, 10000)>>),
             Track("fr", TRUE,  FALSE, <<Chunk(<<"f">>, 0, 10000)>>)>>

VideoIds == {"A", "B", "C"}

\* Lines 45-49: one item of run_yt_dlp_list.
Item(vid) ==
    [video_id |-> vid,
     title    |-> CASE vid = "A" -> <<"a">>
                    [] vid = "B" -> <<>>
                    [] vid = "C" -> <<"a", "/", "b">>,
     url      |-> "https://www.youtube.com/watch?v=" \o vid]

\* The lists run_yt_dlp_list can return: playlist entries have distinct ids.
Playlists ==
    UNION {{[i \in 1..n |-> Item(f[i])] :
               f \in {g \in [1..n -> VideoIds] :
                         \A i, j \in 1..n : i # j => g[i] # g[j]}} :
           n \in 0..MaxItems}

\* What list_transcripts raises when it raises.
ListingErrors == {"TranscriptsDisabled", "VideoUnavailable", "TooManyRequests"}

\* Index of the first track of the listing satisfying P, 0 when none.
FirstTrack(tracks, english, generated) ==
    LET hit == {i \in 1..Len(tracks) :
                   /\ (tracks[i].language_code = "en") = english
                   /\ tracks[i].is_generated = generated}
    IN  IF hit = {} THEN 0 ELSE CHOOSE i \in hit : \A j \in hit : i <= j

\* listing.find_manually_created_transcript(["en"]) (line 66)
ManualEnglish(tracks) == FirstTrack(tracks, TRUE, FALSE)

\* listing.find_generated_transcript(["en"]) (line 70)
GeneratedEnglish(tracks) == FirstTrack(tracks, TRUE, TRUE)

\* The track get_transcript(vid, languages=["en"]) resolves to (line 58):
\* the service looks for a manually created English track, then for a
\* generated one.
DirectEnglish(tracks) ==
    IF ManualEnglish(tracks) # 0 THEN ManualEnglish(tracks)
    ELSE GeneratedEnglish(tracks)

-----------------------------------------------------------------------------
(* join_text and to_srt                                                    *)

ReplaceNewlines(s) == [i \in 1..Len(s) |-> IF s[i] = "U+000A" THEN " " ELSE s[i]]

RECURSIVE Join(_, _)
Join(parts, sep) ==
    IF parts = <<>> THEN <<>>
    ELSE IF Len(parts) = 1 THEN parts[1]
    ELSE parts[1] \o sep \o Join(Tail(parts), sep)

HasText(x) == x.text # <<>>

\* Line 87.
join_text(cs) ==
    LET kept == SelectSeq(cs, HasText)
    IN  Join([i \in 1..Len(kept) |-> Strip(ReplaceNewlines(kept[i].text))], <<" ">>)

\* Lines 97-103: the lines of the subtitle document.
to_srt(cs) ==
    Flatten([i \in 1..Len(cs) |->
        <<Digits(i),
          fmt(cs[i].start) \o <<" ", "-", "-", ">", " ">>
              \o fmt(cs[i].start + cs[i].duration),
          Strip(ReplaceNewlines(cs[i].text)),
          <<>> >>])

\* Every chunk list the service can return.
ChunkLists ==
    UNION {{Listing(v)[i].chunks : i \in 1..Len(Listing(v))} : v \in VideoIds}

\* Lines 134 and 141 on each of them, computed once: text is
\* join_text(chunks), srt is to_srt(chunks).
Formatted == [cs \in ChunkLists |-> [text |-> join_text(cs), srt |-> to_srt(cs)]]

-----------------------------------------------------------------------------
(* main(): helpers                                                         *)

NoOrigin == [kind |-> "none", language_code |-> ""]

\* The item the for loop is at (line 127).
It == items[idx]

\* Line 130: title = it["title"] or vid
Title(it) == IF it.title = <<>> THEN <<it.video_id>> ELSE it.title

\* Lines 143-149 and the rows of the three handlers.
Row(it, source, n) ==
    [video_id |-> it.video_id, url |-> it.url, title |-> Title(it),
     source |-> source, char_len |-> n]

\* Lines 152-158: the object of one JSONL line.
JsonLine(it, source, cs) ==
    [video_id |-> it.video_id, url |-> it.url, title |-> Title(it),
     source |-> source, chunks |-> cs]

\* Lines 137-138 for each video of the catalogue, computed once: the title
\* is it["title"] or vid (line 130), the suffix embeds the id.
FileNames ==
    [v \in VideoIds |->
        [txt |-> safe_filename(Title(Item(v)), Suffix(v, TxtExt), DefaultMaxLen),
         srt |-> safe_filename(Title(Item(v)), Suffix(v, SrtExt), DefaultMaxLen)]]

\* Path.write_text: the file of that name is created or replaced.
WriteText(files, name, content) ==
    {f \in files : f.name # name} \cup {[name |-> name, content |-> content]}

\* The exception raised when line 84 is evaluated.  The operand of raise is
\* built first: NoTranscriptFound of youtube_transcript_api is declared
\* __init__(self, video_id, requested_language_codes, transcript_data), and
\* the call passes a single positional argument, so building it raises
\* TypeError and no NoTranscriptFound is ever raised from this line.
RaisedAtLine84 == "TypeError"

\* The chain of except clauses with the last clause lost: nothing but the
\* three named classes is caught.
HandlerWithoutCatchAll(kind) ==
    IF kind \in {"TranscriptsDisabled", "NoTranscriptFound"} THEN "none"
    ELSE IF kind = "VideoUnavailable" THEN "unavailable"
    ELSE "uncaught"

\* Lines 160-183: the source recorded for an exception of class `kind`
\* raised inside the try; every class the model raises derives from
\* Exception, which the last clause catches.
Handler(kind) ==
    IF kind \in {"TranscriptsDisabled", "NoTranscriptFound"} THEN "none"
    ELSE IF kind = "VideoUnavailable" THEN "unavailable"
    ELSE "error: " \o kind

\* An exception of class `kind` leaves the try body of the current video at
\* `site`: the matching handler appends its row and the loop goes on; an
\* exception no clause matches ends the process with a traceback (status 1).
Raise(kind, site) ==
    IF Handler(kind) = "uncaught"
    THEN /\ pc' = "done"
         /\ exitCode' = 1
         /\ UNCHANGED <<rows, sites, idx>>
    ELSE /\ rows' = Append(rows, Row(It, Handler(kind), 0))
         /\ sites' = Append(sites, [site |-> site, exc |-> kind])
         /\ idx' = idx + 1
         /\ pc' = "loop"
         /\ UNCHANGED exitCode

\* fetch_best_english_transcript returns (t.chunks, label).
Return(t, label, kind, strategy) ==
    /\ chunks' = t.chunks
    /\ src' = label
    /\ origin' = [kind |-> kind, language_code |-> t.language_code]
    /\ attempts' = Append(attempts, [strategy |-> strategy, ok |-> TRUE])
    /\ pc' = "txt"

Failed(strategy) == Append(attempts, [strategy |-> strategy, ok |-> FALSE])

-----------------------------------------------------------------------------
(* main(): the actions                                                     *)

\* Lines 106-118: a new process starts with nothing in memory; without the
\* argument it exits with 2 before touching anything, otherwise
\* transcripts.jsonl is unlinked.  The files on disk are what the previous
\* process left.
StartProcess ==
    /\ runs' = runs + 1
    /\ items' = <<>> /\ idx' = 0 /\ rows' = <<>> /\ sites' = <<>>
    /\ txtFiles' = {} /\ srtFiles' = {}
    /\ chunks' = <<>> /\ src' = "" /\ origin' = NoOrigin
    /\ attempts' = <<>> /\ trIdx' = 0
    /\ \E argc \in {1, 2} :
          IF argc < 2
          THEN pc' = "done" /\ exitCode' = 2 /\ UNCHANGED jsonl
          ELSE pc' = "list" /\ exitCode' = -1 /\ jsonl' = <<>>
    /\ UNCHANGED <<csv, sfVars, fmtVars>>

\* The first run of the tool in a working directory.
Invoke == pc = "start" /\ StartProcess

\* The tool is run again after a run has ended.
Reinvoke == pc = "done" /\ runs < MaxRuns /\ StartProcess

\* Lines 120-125: check_output or json.loads raising ends the process with
\* a traceback (status 1); an empty list is sys.exit(1).
RunYtDlpList ==
    /\ pc = "list"
    /\ \/ /\ pc' = "done" /\ exitCode' = 1
          /\ UNCHANGED <<items, idx>>
       \/ \E pl \in Playlists :
             /\ items' = pl
             /\ IF pl = <<>>
                THEN pc' = "done" /\ exitCode' = 1 /\ UNCHANGED idx
                ELSE pc' = "loop" /\ idx' = 1 /\ UNCHANGED exitCode
    /\ UNCHANGED <<runs, rows, sites, csv, jsonl, txtFiles, srtFiles, chunks,
                   src, origin, attempts, trIdx, sfVars, fmtVars>>

\* Line 127: the for loop takes the next item, or is over.
LoopNext ==
    /\ pc = "loop"
    /\ pc' = IF idx > Len(items) THEN "csv" ELSE "direct"
    /\ attempts' = <<>>
    /\ UNCHANGED <<exitCode, runs, items, idx, rows, sites, csv, jsonl,
                   txtFiles, srtFiles, chunks, src, origin, trIdx,
                   sfVars, fmtVars>>

\* Lines 57-60: the direct English fetch; any exception is swallowed.
DirectFetch ==
    /\ pc = "direct"
    /\ LET tracks == Listing(It.video_id)
           en     == DirectEnglish(tracks)
       IN  \/ /\ en # 0
              /\ Return(tracks[en], "en",
                        IF tracks[en].is_generated THEN "generated" ELSE "manual",
                        [name |-> "direct", track |-> 0])
           \/ /\ attempts' = Failed([name |-> "direct", track |-> 0])
              /\ pc' = "listing"
              /\ UNCHANGED <<chunks, src, origin>>
    /\ UNCHANGED <<exitCode, runs, items, idx, rows, sites, csv, jsonl,
                   txtFiles, srtFiles, trIdx, sfVars, fmtVars>>

\* Line 62: list_transcripts is not guarded; what it raises leaves the
\* fetcher.
ListTranscripts ==
    /\ pc = "listing"
    /\ \/ /\ pc' = "manual"
          /\ UNCHANGED <<exitCode, idx, rows, sites>>
       \/ \E e \in ListingErrors : Raise(e, "list_transcripts")
    /\ UNCHANGED <<runs, items, csv, jsonl, txtFiles, srtFiles, chunks, src,
                   origin, attempts, trIdx, sfVars, fmtVars>>

\* Lines 65-68: the manually created English track.
FindManual ==
    /\ pc = "manual"
    /\ LET tracks == Listing(It.video_id)
           m      == ManualEnglish(tracks)
       IN  \/ /\ m # 0
              /\ Return(tracks[m], "en", "manual", [name |-> "manual", track |-> 0])
           \/ /\ attempts' = Failed([name |-> "manual", track |-> 0])
              /\ pc' = "generated"
              /\ UNCHANGED <<chunks, src, origin>>
    /\ UNCHANGED <<exitCode, runs, items, idx, rows, sites, csv, jsonl,
                   txtFiles, srtFiles, trIdx, sfVars, fmtVars>>

\* Lines 69-73: the auto-generated English track.
FindGenerated ==
    /\ pc = "generated"
    /\ LET tracks == Listing(It.video_id)
           g      == GeneratedEnglish(tracks)
       IN  \/ /\ g # 0
              /\ Return(tracks[g], "en-auto", "generated",
                        [name |-> "generated", track |-> 0])
              /\ UNCHANGED trIdx
           \/ /\ attempts' = Failed([name |-> "generated", track |-> 0])
              /\ pc' = "translate"
              /\ trIdx' = 1
              /\ UNCHANGED <<chunks, src, origin>>
    /\ UNCHANGED <<exitCode, runs, items, idx, rows, sites, csv, jsonl,
                   txtFiles, srtFiles, sfVars, fmtVars>>

\* A translation that fails ends the for loop of lines 76-82.
AbortOnTranslateFailure(tracks, i) == Len(tracks) + 1

\* Lines 81-82: `continue`, the loop goes to the next listed track.
AfterTranslateFailure(tracks, i) == i + 1

\* Lines 76-82: one iteration of `for tr in listing`.
TranslateNext ==
    /\ pc = "translate"
    /\ LET tracks == Listing(It.video_id)
       IN  /\ trIdx <= Len(tracks)
           /\ IF ~tracks[trIdx].is_translatable
              THEN /\ trIdx' = trIdx + 1
                   /\ UNCHANGED <<pc, chunks, src, origin, attempts>>
              ELSE \/ /\ Return(tracks[trIdx],
                                tracks[trIdx].language_code \o "->en",
                                "translated",
                                [name |-> "translate", track |-> trIdx])
                      /\ UNCHANGED trIdx
                   \/ /\ attempts' = Failed([name |-> "translate", track |-> trIdx])
                      /\ trIdx' = AfterTranslateFailure(tracks, trIdx)
                      /\ UNCHANGED <<pc, chunks, src, origin>>
    /\ UNCHANGED <<exitCode, runs, items, idx, rows, sites, csv, jsonl,
                   txtFiles, srtFiles, sfVars, fmtVars>>

\* Line 84: the listing is exhausted.
Exhausted ==
    /\ pc = "translate"
    /\ trIdx > Len(Listing(It.video_id))
    /\ Raise(RaisedAtLine84, "exhausted")
    /\ UNCHANGED <<runs, items, csv, jsonl, txtFiles, srtFiles, chunks, src,
                   origin, attempts, trIdx, sfVars, fmtVars>>

\* Lines 134-140: join_text, the two names, the .txt write (OSError when
\* the file cannot be written).
WriteTxt ==
    /\ pc = "txt"
    /\ \/ /\ txtFiles' = WriteText(txtFiles, FileNames[It.video_id].txt,
                                    Formatted[chunks].text)
          /\ pc' = "srt"
          /\ UNCHANGED <<exitCode, idx, rows, sites, chunks, src, origin, attempts>>
       \/ /\ Raise("OSError", "write_txt")
          /\ chunks' = <<>> /\ src' = "" /\ origin' = NoOrigin
          /\ UNCHANGED <<txtFiles, attempts>>
    /\ UNCHANGED <<runs, items, csv, jsonl, srtFiles, trIdx, sfVars, fmtVars>>

\* Line 141: to_srt and the .srt write.
WriteSrt ==
    /\ pc = "srt"
    /\ \/ /\ srtFiles' = WriteText(srtFiles, FileNames[It.video_id].srt,
                                    Formatted[chunks].srt)
          /\ pc' = "record"
          /\ UNCHANGED <<exitCode, idx, rows, sites, chunks, src, origin>>
       \/ /\ Raise("OSError", "write_srt")
          /\ chunks' = <<>> /\ src' = "" /\ origin' = NoOrigin
          /\ UNCHANGED srtFiles
    /\ UNCHANGED <<runs, items, csv, jsonl, txtFiles, attempts, trIdx,
                   sfVars, fmtVars>>

\* Lines 143-158: the success row is appended, then the JSONL file is
\* opened for append and the line written.  When that raises (OSError) the
\* row is already in the accumulator and the handler of line 176 appends
\* another one.
Record ==
    /\ pc = "record"
    /\ LET ok == Row(It, src, Len(Formatted[chunks].text))
       IN  \/ /\ rows' = Append(rows, ok)
              /\ sites' = Append(sites, [site |-> "record", exc |-> ""])
              /\ jsonl' = Append(jsonl, JsonLine(It, src, chunks))
           \/ /\ rows' = rows \o <<ok, Row(It, Handler("OSError"), 0)>>
              /\ sites' = sites \o <<[site |-> "record", exc |-> ""],
                                     [site |-> "append_jsonl", exc |-> "OSError"]>>
              /\ UNCHANGED jsonl
    /\ idx' = idx + 1
    /\ pc' = "loop"
    /\ chunks' = <<>> /\ src' = "" /\ origin' = NoOrigin
    /\ UNCHANGED <<exitCode, runs, items, csv, txtFiles, srtFiles, attempts,
                   trIdx, sfVars, fmtVars>>

\* Lines 185-195: transcripts.csv is opened with "w" and the rows written;
\* main returns and the process ends with status 0.
WriteCsv ==
    /\ pc = "csv"
    /\ csv' = rows
    /\ pc' = "done"
    /\ exitCode' = 0
    /\ UNCHANGED <<runs, items, idx, rows, sites, jsonl, txtFiles, srtFiles,
                   chunks, src, origin, attempts, trIdx, sfVars, fmtVars>>

\* The steps of a run once the process is started.
Step ==
    \/ RunYtDlpList \/ LoopNext \/ DirectFetch \/ ListTranscripts
    \/ FindManual \/ FindGenerated \/ TranslateNext \/ Exhausted
    \/ WriteTxt \/ WriteSrt \/ Record \/ WriteCsv

Next == Invoke \/ Step

\* Runs of the tool one after the other in the same working directory.
NextRerun == Invoke \/ Reinvoke \/ Step

MainInit ==
    /\ pc = "start" /\ exitCode = -1 /\ runs = 0
    /\ items = <<>> /\ idx = 0 /\ rows = <<>> /\ sites = <<>>
    /\ csv = <<>> /\ jsonl = <<>> /\ txtFiles = {} /\ srtFiles = {}
    /\ chunks = <<>> /\ src = "" /\ origin = NoOrigin
    /\ attempts = <<>> /\ trIdx = 0

SfIdle == sfName = <<>> /\ sfSuffix = <<>> /\ sfMaxLen = DefaultMaxLen
          /\ sfOut = <<>> /\ sfDone = FALSE

FmtIdle == fmtT = 0 /\ fmtOut = <<>> /\ fmtDone = FALSE

Init == MainInit /\ SfIdle /\ FmtIdle

Spec == Init /\ [][Next]_vars

\* Every call the run makes returns or raises, so a started run keeps
\* taking steps; nothing obliges anybody to start another run.
FairSpec == Spec /\ WF_vars(Step)

RerunSpec == Init /\ [][NextRerun]_vars

-----------------------------------------------------------------------------
(* safe_filename and fmt applied to bounded inputs                         *)

TitleChars == {"a", " ", "/", "U+FF0F", "U+0007", "U+2105"}

Titles == UNION {[1..n -> TitleChars] : n \in 0..MaxTitleLen}

\* Suffixes as main builds them (a video id may be any string the playlist
\* tool reports) and shorter ones.
SuffixArgs == {<<>>, <<".", "s">>} \cup {Suffix(v, TxtExt) : v \in {"A", "/"}}

MaxLenArgs == (1..MaxLenArg) \cup {DefaultMaxLen}

SafeInit ==
    /\ sfName \in Titles /\ sfSuffix \in SuffixArgs /\ sfMaxLen \in MaxLenArgs
    /\ sfOut = <<>> /\ sfDone = FALSE

CallSafeFilename ==
    /\ ~sfDone
    /\ sfOut' = safe_filename(sfName, sfSuffix, sfMaxLen)
    /\ sfDone' = TRUE
    /\ UNCHANGED <<sfName, sfSuffix, sfMaxLen, mainVars, fmtVars>>

SafeSpecInit == MainInit /\ SafeInit /\ FmtIdle

SafeSpec == SafeSpecInit /\ [][CallSafeFilename]_vars

\* Times in ticks: whole seconds around the minute and hour boundaries and
\* beyond a day, with fractions on both sides of the rounding boundaries.
\* A fraction exactly halfway between two milliseconds is left out: there
\* the binary value of the float decides, which fixed point does not hold.
Times ==
    {s * TicksPerSecond + f :
        s \in {0, 1, 59, 60, 61, 3599, 3600, 3725, 86399, 100000},
        f \in {0, 4, 6, 4567, 9994, 9996, 9999}}

FmtInit == fmtT \in Times /\ fmtOut = <<>> /\ fmtDone = FALSE

CallFmt ==
    /\ ~fmtDone
    /\ fmtOut' = fmt(fmtT)
    /\ fmtDone' = TRUE
    /\ UNCHANGED <<fmtT, mainVars, sfVars>>

FmtSpecInit == MainInit /\ SfIdle /\ FmtInit

FmtSpec == FmtSpecInit /\ [][CallFmt]_vars

-----------------------------------------------------------------------------
(* Properties                                                              *)

Languages == {"en", "de", "es", "fr"}

\* The source values of a success row.
SuccessLabels == {"en", "en-auto"} \cup {l \o "->en" : l \in Languages}

IsFailure(r) == r.source \notin SuccessLabels

LoopOver == pc = "csv" \/ (pc = "done" /\ exitCode = 0)

\* C1: once the loop has processed a playlist of N entries the accumulator
\* holds exactly N rows, the i-th row carrying the video_id of the i-th
\* entry, whatever happened to each video.
C1_OneRowPerEntry ==
    LoopOver =>
        /\ Len(rows) = Len(items)
        /\ \A i \in 1..Len(rows) : rows[i].video_id = items[i].video_id

\* C2: the source of a row is determined by the outcome that produced it: a
\* completed success path records a success label; TranscriptsDisabled,
\* NoTranscriptFound and the exhaustion of the fallback chain record "none";
\* VideoUnavailable records "unavailable"; any other exception records
\* "error: <kind>"; and a row without a success label has char_len 0.
C2_SourceByOutcome ==
    \A i \in 1..Len(rows) :
        LET r == rows[i]
            s == sites[i]
        IN  /\ s.site = "record" => r.source \in SuccessLabels
            /\ s.site = "exhausted" => r.source = "none"
            /\ s.exc \in {"TranscriptsDisabled", "NoTranscriptFound"}
                  => r.source = "none"
            /\ s.exc = "VideoUnavailable" => r.source = "unavailable"
            /\ (/\ s.site \notin {"record", "exhausted"}
                /\ s.exc \notin {"TranscriptsDisabled", "NoTranscriptFound",
                                 "VideoUnavailable"})
                  => r.source = "error: " \o s.exc
            /\ IsFailure(r) => r.char_len = 0

Names(files) == {f.name : f \in files}

TxtName(r) == safe_filename(r.title, Suffix(r.video_id, TxtExt), DefaultMaxLen)
SrtName(r) == safe_filename(r.title, Suffix(r.video_id, SrtExt), DefaultMaxLen)

\* C3: a video whose row has a failure source has no .txt file, no .srt
\* file and no JSONL line written by the run.
C3_NoFilesOnFailure ==
    \A i \in 1..Len(rows) :
        IsFailure(rows[i]) =>
            /\ TxtName(rows[i]) \notin Names(txtFiles)
            /\ SrtName(rows[i]) \notin Names(srtFiles)
            /\ \A k \in 1..Len(jsonl) : jsonl[k].video_id # rows[i].video_id

\* The strategies of fetch_best_english_transcript on a listing, in the
\* order the claim gives them.
TranslatableIn(tracks) ==
    SelectSeq([i \in 1..Len(tracks) |-> i],
              LAMBDA i : tracks[i].is_translatable)

StrategyOrder(tracks) ==
    <<[name |-> "direct", track |-> 0], [name |-> "manual", track |-> 0],
      [name |-> "generated", track |-> 0]>>
    \o [k \in 1..Len(TranslatableIn(tracks)) |->
           [name |-> "translate", track |-> TranslatableIn(tracks)[k]]]

\* The track a strategy reads.
StrategyTrack(tracks, st) ==
    CASE st.name = "direct"    -> tracks[DirectEnglish(tracks)]
      [] st.name = "manual"    -> tracks[ManualEnglish(tracks)]
      [] st.name = "generated" -> tracks[GeneratedEnglish(tracks)]
      [] st.name = "translate" -> tracks[st.track]

\* The video the recorded attempts belong to: the current item, or the one
\* just finished when the loop is back at its head.
AttemptsVideo == IF pc = "loop" THEN items[idx - 1] ELSE items[idx]

\* C4: the strategies are attempted in strict order (direct, manual English,
\* generated English, each translatable track in listed order); a strategy
\* is attempted only after every earlier one failed; a failed translation
\* moves on to the next translatable track, so the chain gives up only when
\* all have been tried; nothing is attempted after a success, whose result
\* is what is returned.
C4_StrictOrder ==
    attempts # <<>> =>
        LET tracks == Listing(AttemptsVideo.video_id)
            n      == Len(attempts)
            tried  == [i \in 1..n |-> attempts[i].strategy]
        IN  /\ IsPrefix(tried, StrategyOrder(tracks))
            /\ \A i \in 1..(n - 1) : ~attempts[i].ok
            /\ attempts[n].ok => pc \in {"txt", "srt", "record", "loop"}
            /\ src # "" =>
                  /\ attempts[n].ok
                  /\ chunks = StrategyTrack(tracks, attempts[n].strategy).chunks
            /\ (pc = "loop" /\ sites[Len(sites)].site = "exhausted")
                  => tried = StrategyOrder(tracks)

\* C4 witness: a translation failed, the next translatable track was tried
\* and its result returned.
C4_Witness ==
    /\ pc = "txt" /\ src = "es->en" /\ Len(attempts) = 5
    /\ attempts[4] = [strategy |-> [name |-> "translate", track |-> 1], ok |-> FALSE]

SuccessIds(rs) ==
    LET ok == SelectSeq(rs, LAMBDA r : ~IsFailure(r))
    IN  [i \in 1..Len(ok) |-> ok[i].video_id]

\* C5: after any sequence of runs the last of which ran to its end,
\* transcripts.jsonl holds exactly one line for each video that run recorded
\* with a success source, in playlist order, and nothing older, and
\* transcripts.csv holds exactly the rows of that run.
C5_OnlyLatestRun ==
    (pc = "done" /\ exitCode = 0) =>
        /\ [k \in 1..Len(jsonl) |-> jsonl[k].video_id] = SuccessIds(rows)
        /\ csv = rows

\* Consecutive rows of the same video taken as one.
RECURSIVE VisitOrder(_)
VisitOrder(rs) ==
    IF rs = <<>> THEN <<>>
    ELSE IF Len(rs) > 1 /\ rs[1].video_id = rs[2].video_id
         THEN VisitOrder(Tail(rs))
         ELSE <<rs[1].video_id>> \o VisitOrder(Tail(rs))

RunComplete ==
    /\ pc = "done" /\ exitCode = 0
    /\ csv = rows
    /\ VisitOrder(rows) = [i \in 1..Len(items) |-> items[i].video_id]

C7_LabelMatchesTrack ==
    src # "" =>
        /\ src = "en" => origin.kind = "manual"
        /\ origin.kind = "generated" => src = "en-auto"
        /\ origin.kind = "translated" => src = origin.language_code \o "->en"

\* C8 as stated: the result is at most max_len long and ends with the
\* suffix, for every title, suffix and max_len.
C8_LengthAndSuffix ==
    sfDone => Len(sfOut) <= sfMaxLen /\ EndsWith(sfOut, sfSuffix)

\* C8 amended: the result ends with exactly the suffix and is at most
\* max(max_len, len(suffix) + 1) long, hence at most max_len whenever
\* len(suffix) < max_len; with len(suffix) >= max_len the title is clamped
\* to one character and the result may be len(suffix) + 1 long.
C8_SuffixKeptLengthBounded ==
    sfDone =>
        /\ EndsWith(sfOut, sfSuffix)
        /\ Len(sfOut) <= Max(sfMaxLen, Len(sfSuffix) + 1)
        /\ Len(sfSuffix) < sfMaxLen => Len(sfOut) <= sfMaxLen

\* C8 witness: a suffix as long as max_len, a title cut to one character.
C8_Witness ==
    /\ sfDone /\ Len(sfSuffix) >= sfMaxLen
    /\ Len(CleanTitle(sfName)) > 1
    /\ Len(sfOut) = Len(sfSuffix) + 1

\* The HH:MM:SS,mmm rendering of a whole number of milliseconds.
Render(totalMs) ==
    Pad(totalMs \div (3600 * MsPerSecond), 2) \o <<":">>
        \o Pad((totalMs \div (60 * MsPerSecond)) % 60, 2) \o <<":">>
        \o Pad((totalMs \div MsPerSecond) % 60, 2) \o <<",">>
        \o Pad(totalMs % MsPerSecond, 3)

\* The whole milliseconds nearest to t ticks (two of them on a tie).
NearestMs(t) ==
    {k \in (t \div TicksPerMs)..(t \div TicksPerMs + 1) :
        \A j \in (t \div TicksPerMs)..(t \div TicksPerMs + 1) :
            (IF k * TicksPerMs >= t THEN k * TicksPerMs - t ELSE t - k * TicksPerMs)
         <= (IF j * TicksPerMs >= t THEN j * TicksPerMs - t ELSE t - j * TicksPerMs)}

\* C9: fmt(t) is the HH:MM:SS,mmm rendering of t rounded to the nearest
\* millisecond, the carry of a rounded-up fraction going into the seconds,
\* minutes and hours.
C9_NearestMillisecond ==
    fmtDone => fmtOut \in {Render(k) : k \in NearestMs(fmtT)}

\* C10: the result of safe_filename holds none of \ / : * ? " < > |,
\* whatever the title and the suffix hold.
C10_NoForbiddenCharacter ==
    sfDone => \A i \in 1..Len(sfOut) : sfOut[i] \notin Forbidden

====
